---------------------------- MODULE Spec2Model ----------------------------
(***************************************************************************)
(* A model of the ray tracer of src/main.cpp.                              *)
(*                                                                         *)
(* Numbers.  A float is modelled as a fixed-point integer counting         *)
(* thousandths (Scale ticks per unit): the program's smallest literal,     *)
(* the 1e-3 surface offset, is one tick.  Products, quotients and square   *)
(* roots round toward zero, each at the place where the program rounds.   *)
(*                                                                         *)
(* Geometry.  Every scene a ray is sent into lies on one vertical line:     *)
(* sphere centres, lights and the ray's origin are on it.  A ray that is   *)
(* cast points up or down the line, so that every hit is at normal         *)
(* incidence and each normal is an axis vector: the fixed-point results    *)
(* are then the program's results.  sceneIntersect is also called with a   *)
(* horizontal ray, which never reaches the plane of the checkerboard.      *)
(*                                                                         *)
(* Three specifications share the variables: SpecProbe calls               *)
(* sceneIntersect, SpecCast runs rayCaster for one primary ray, SpecRender *)
(* runs render and main with rayCaster's result taken as given.            *)
(***************************************************************************)
EXTENDS Integers, Sequences, FiniteSets, TLC

\* ------------------------------------------------------------ fixed point

\* Ticks per unit; 1e-3, the offset of lines 108, 109 and 119, is one tick.
Scale == 1000

\* #define MAXDEPTH 10
MAXDEPTH == 10

\* std::numeric_limits<float>::max(), larger than every distance of a scene.
FloatMax == 2000000000

\* The cutoff of line 93, 1000 units.
Cutoff == 1000 * Scale

Abs(a) == IF a < 0 THEN -a ELSE a

Sgn(a) == IF a < 0 THEN -1 ELSE IF a > 0 THEN 1 ELSE 0

Max(a, b) == IF a < b THEN b ELSE a

Min(a, b) == IF b < a THEN b ELSE a

\* The quotient a / b rounded toward zero (b # 0).
TruncDiv(a, b) == Sgn(a) * Sgn(b) * (Abs(a) \div Abs(b))

\* x * y / Scale rounded down, for x, y >= 0.
MulAbs(x, y) == (x \div Scale) * y + ((x % Scale) * y) \div Scale

\* The float product a * b: a * b / Scale rounded toward zero, computed
\* without leaving 32 bits for the magnitudes a scene holds.
FMul(a, b) ==
    IF a = 0 \/ b = 0 THEN 0
    ELSE IF b = Scale THEN a
    ELSE IF b = -Scale THEN -a
    ELSE Sgn(a) * Sgn(b) * MulAbs(Abs(a), Abs(b))

\* The float quotient a / b.
FDiv(a, b) == TruncDiv(a * Scale, b)

RECURSIVE Bisect(_, _, _)
\* The largest s in lo..hi with s * s <= v, given lo * lo <= v.
Bisect(v, lo, hi) ==
    IF lo >= hi THEN lo
    ELSE IF FMul((lo + hi + 1) \div 2, (lo + hi + 1) \div 2) <= v
         THEN Bisect(v, (lo + hi + 1) \div 2, hi)
         ELSE Bisect(v, lo, (lo + hi + 1) \div 2 - 1)

\* sqrtf(v) for v >= 0, known to lie in lo..hi.
FSqrt(v, lo, hi) ==
    IF FMul(lo + 1, lo + 1) > v THEN lo
    ELSE IF FMul(hi, hi) <= v THEN hi
    ELSE Bisect(v, lo, hi)

Square(a) == FMul(a, a)

RECURSIVE FPow(_, _)
\* powf(b, e) for a base b in [0, 1] and a whole exponent e >= 0
\* (powf(0, 0) = 1).
FPow(b, e) ==
    IF e = 0 THEN Scale
    ELSE IF b = 0 THEN 0
    ELSE IF b = Scale THEN Scale
    ELSE IF e % 2 = 1 THEN FMul(b, FPow(b, e - 1))
    ELSE Square(FPow(b, e \div 2))

\* --------------------------------------------------- vectors (geometry.h)

Vec3f(x, y, z) == <<x, y, z>>

VAdd(a, b) == <<a[1] + b[1], a[2] + b[2], a[3] + b[3]>>

VSub(a, b) == <<a[1] - b[1], a[2] - b[2], a[3] - b[3]>>

VNeg(a) == <<-a[1], -a[2], -a[3]>>

\* vector * float
VScale(a, s) == <<FMul(a[1], s), FMul(a[2], s), FMul(a[3], s)>>

\* vector * vector, the dot product
Dot(a, b) == FMul(a[1], b[1]) + FMul(a[2], b[2]) + FMul(a[3], b[3])

MaxAbs(a) == Max(Abs(a[1]), Max(Abs(a[2]), Abs(a[3])))

\* norm(): sqrt(a * a), between the largest component and the sum of the three.
Norm(a) == FSqrt(Dot(a, a), MaxAbs(a), Abs(a[1]) + Abs(a[2]) + Abs(a[3]))

\* vector * (1 / n); the vector itself when n = 0.
VDiv(a, n) ==
    IF n = 0 THEN a ELSE <<FDiv(a[1], n), FDiv(a[2], n), FDiv(a[3], n)>>

\* normalize(): the vector scaled to length 1.  The zero vector (NaN in the
\* program) does not arise: every radius is positive.
Normalize(a) == VDiv(a, Norm(a))

\* ------------------------------------------------------------- materials

\* Material(r, a, color, spec)
Material(r, a, color, spec) ==
    [refractive_index |-> r, albedo |-> a, diffuse_color |-> color,
     specular_exponent |-> spec]

\* Material(): refractive_index(1), albedo(1, 0, 0, 0), diffuse_color(),
\* specular_exponent()
DefaultMaterial == Material(Scale, <<Scale, 0, 0, 0>>, <<0, 0, 0>>, 0)

\* The four materials of main.
glass == Material(1010, <<0, 500, 100, 800>>, <<600, 800, 700>>, 125)

rubber == Material(1000, <<900, 100, 0, 0>>, <<400, 100, 300>>, 10)

rubber2 == Material(1000, <<900, 100, 400, 0>>, <<300, 100, 400>>, 10)

mirror == Material(1000, <<0, 10000, 800, 0>>, <<1000, 1000, 1000>>, 1425)

\* #define BACKGROUNDCOLOR Vec3f(0.3, 0.2, 0.3)
BACKGROUNDCOLOR == Vec3f(300, 200, 300)

Sphere(c, r, m) == [center |-> c, radius |-> r, material |-> m]

Light(p, i) == [position |-> p, intensity |-> i]

\* ---------------------------------------------------------- intersection

\* Lines 42-46: t0 = tca - thc, t1 = tca + thc, t0 = t1 when t0 < 0, and
\* the hit is in front when t0 is not negative.
intersectRoots(t0, t1) ==
    [ok |-> (IF t0 < 0 THEN t1 ELSE t0) >= 0, t0 |-> IF t0 < 0 THEN t1 ELSE t0]

\* Lines 42-46, given tca and thc.
intersectThc(tca, thc) == intersectRoots(tca - thc, tca + thc)

\* Lines 39-46, given tca, d2 and radius * radius.
intersectD2(radius, tca, d2, r2) ==
    IF d2 > r2 THEN [ok |-> FALSE, t0 |-> 0]
    ELSE intersectThc(tca, FSqrt(r2 - d2, 0, radius))

\* Lines 38-46, given oc and tca.
intersectTca(radius, oc, tca) ==
    intersectD2(radius, tca, Dot(oc, oc) - Square(tca), Square(radius))

\* Lines 37-46, given oc = center - orig.
intersectOc(radius, oc, dir) == intersectTca(radius, oc, Dot(oc, dir))

\* Sphere::rayIntersect: [ok, t0].  t0 is read by the caller only when ok.
rayIntersect(s, orig, dir) == intersectOc(s.radius, VSub(s.center, orig), dir)

\* reflect(I, N) = I - N * 2.f * (I * N)
reflect(I, N) == VSub(I, VScale(VScale(N, 2 * Scale), Dot(I, N)))

\* Line 62, given cosi, eta and k.
refractK(I, N, self, cosi, eta, k) ==
    [dir  |-> IF k < 0 THEN Vec3f(Scale, 0, 0)
              ELSE VAdd(VScale(I, eta),
                        VScale(N, FMul(eta, cosi) - FSqrt(k, 0, Scale))),
     self |-> self]

\* Lines 61-62, given cosi and eta.
refractEta(I, N, self, cosi, eta) ==
    refractK(I, N, self, cosi, eta,
             Scale - FMul(Square(eta), Scale - Square(cosi)))

RECURSIVE refractFrom(_, _, _, _, _)
\* Lines 58-62, given cosi: the ray comes from inside when cosi < 0, and
\* refract calls itself with the normal and the indices swapped.
refractCos(I, N, eta_t, eta_i, self, cosi) ==
    IF cosi < 0 THEN refractFrom(I, VNeg(N), eta_i, eta_t, self + 1)
    ELSE refractEta(I, N, self, cosi, FDiv(eta_i, eta_t))

\* refract, with the number of times it has called itself so far.
refractFrom(I, N, eta_t, eta_i, self) ==
    refractCos(I, N, eta_t, eta_i, self, -Max(-Scale, Min(Scale, Dot(I, N))))

\* refract(I, N, eta_t, eta_i = 1.f)
refract(I, N, eta_t) == refractFrom(I, N, eta_t, Scale, 0)

\* The comparison of line 71 that lets a sphere replace the current winner.
Closer(dist_i, spheres_dist) == dist_i < spheres_dist

\* Lines 73-76: the sphere s becomes the winner, hit at distance dist_i.
sphereRecord(s, dist_i, hit) ==
    [dist |-> dist_i, hit |-> hit, N |-> Normalize(VSub(hit, s.center)),
     material |-> s.material]

\* Lines 70-77, one iteration: r is what rayIntersect reported for s.
sphereStep(orig, dir, s, r, acc) ==
    IF r.ok /\ Closer(r.t0, acc.dist)
    THEN sphereRecord(s, r.t0, VAdd(orig, VScale(dir, r.t0)))
    ELSE acc

RECURSIVE sphereLoop(_, _, _, _, _)
\* The loop of lines 68-78 from index i on; acc = [dist, hit, N, material].
sphereLoop(orig, dir, spheres, i, acc) ==
    IF i > Len(spheres) THEN acc
    ELSE sphereLoop(orig, dir, spheres, i + 1,
                    sphereStep(orig, dir, spheres[i],
                               rayIntersect(spheres[i], orig, dir), acc))

\* The floor of the quotient num / den.
CIntFloor(num, den) == num \div den

\* (int) of the quotient num / den: truncation toward zero.
CInt(num, den) == TruncDiv(num, den)

\* The colour of line 90 at the point hit.
checkerColor(hit) ==
    IF (CInt(hit[1] + 2000 * Scale, 2 * Scale) + CInt(hit[3], 2 * Scale)) % 2 = 1
    THEN Vec3f(300, 300, 300)
    ELSE Vec3f(100, 100, 100)

\* Line 83: the distance along the ray to the plane y = -5; read only when
\* the test of line 81 passed.
planeDistance(orig, dir) ==
    IF Abs(dir[2]) > 1 THEN -FDiv(orig[2] + 5 * Scale, dir[2]) ELSE 0

\* The tests of lines 81 and 85: the checkerboard replaces the winner s
\* of the sphere loop.
boardWins(dir, s, distance, pt) ==
    /\ Abs(dir[2]) > 1
    /\ distance > 0
    /\ Abs(pt[1]) < 10 * Scale
    /\ pt[3] < -10 * Scale
    /\ pt[3] > -30 * Scale
    /\ distance < s.dist

\* Lines 87-93: what sceneIntersect leaves in hit, N and material and what
\* it returns; board tells whether the body of line 85's if ran.
boardResult(s, distance, pt, board) ==
    [found    |-> Min(s.dist, IF board THEN distance ELSE FloatMax) < Cutoff,
     hit      |-> IF board THEN pt ELSE s.hit,
     N        |-> IF board THEN Vec3f(0, Scale, 0) ELSE s.N,
     material |-> IF board
                  THEN [s.material EXCEPT !.diffuse_color = checkerColor(pt)]
                  ELSE s.material,
     spheres_dist      |-> s.dist,
     checkerboard_dist |-> IF board THEN distance ELSE FloatMax]

\* Lines 85-93, given the plane point pt.
boardPoint(dir, s, distance, pt) ==
    boardResult(s, distance, pt, boardWins(dir, s, distance, pt))

\* Lines 80-93, given the winner s of the sphere loop and the distance to
\* the plane.
boardStep(orig, dir, s, distance) ==
    boardPoint(dir, s, distance, VAdd(orig, VScale(dir, distance)))

\* sceneIntersect, called with hit, N and material as they stand in the
\* caller: [found, hit, N, material, spheres_dist, checkerboard_dist].
sceneIntersect(orig, dir, spheres, hit0, N0, material0) ==
    boardStep(orig, dir,
              sphereLoop(orig, dir, spheres, 1,
                         [dist |-> FloatMax, hit |-> hit0, N |-> N0,
                          material |-> material0]),
              planeDistance(orig, dir))

\* ----------------------------------------------------------------- scenes

\* The largest number of spheres and of lights of a scene.
MaxSpheres == 4

MaxLights == 2

Up == Vec3f(0, Scale, 0)

Down == Vec3f(0, -Scale, 0)

Sideways == Vec3f(Scale, 0, 0)

\* The spheres a scene on the line (x, z) is built from, in the order of the
\* scene's list: one around the camera, one beyond the cutoff, one that
\* touches the plane at y = -5 and the first sphere at y = 3, one below the
\* checkerboard plane, one far below, one above.
SpherePool(x, z) ==
    << Sphere(Vec3f(x, 0, z), 3 * Scale, glass),
       Sphere(Vec3f(x, 1200 * Scale, z), 3 * Scale, rubber),
       Sphere(Vec3f(x, -1 * Scale, z), 4 * Scale, rubber2),
       Sphere(Vec3f(x, -8 * Scale, z), 2 * Scale, mirror),
       Sphere(Vec3f(x, -40 * Scale, z), 2 * Scale, rubber),
       Sphere(Vec3f(x, 12 * Scale, z), 2 * Scale, glass) >>

\* The lights a scene on the line (x, z) is built from: one above the
\* scene, one above the sphere beyond the cutoff, one below, one inside.
LightPool(x, z) ==
    << Light(Vec3f(x, 20 * Scale, z), 1400),
       Light(Vec3f(x, 1300 * Scale, z), 1200),
       Light(Vec3f(x, -30 * Scale, z), 1500),
       Light(Vec3f(x, 1 * Scale, z), 800) >>

Scene(x, z, ns) == SubSeq(SpherePool(x, z), 1, ns)

Lights(x, z, nl) == SubSeq(LightPool(x, z), 1, nl)

\* The lines sceneIntersect is probed on: inside the checkerboard region,
\* on its edges and outside it.
ProbeLines ==
    { <<0, -12 * Scale>>, <<0, -11 * Scale>>, <<2 * Scale, -12 * Scale>>,
      <<-9999, -29999>>, <<10 * Scale, -12 * Scale>>, <<0, -10 * Scale>>,
      <<0, 0>> }

\* The heights a probe ray starts from.
ProbeHeights == { 0, 8 * Scale, -4 * Scale, -5500 }

Dirs == { Up, Down, Sideways }

VARIABLES
    spheres,    \* the scene's spheres
    lights,     \* the scene's lights
    query,      \* sceneIntersect's ray, [orig, dir]
    answer,     \* what sceneIntersect returned for query, or NoAnswer
    lastBoard,  \* the previous checkerboard hit, <<point, colour>>, or NoBoard
    stack,      \* rayCaster's activation records, the primary ray's first
    returned,   \* the activation that returned last, or NoReturn
    calls,      \* rayCaster invocations since the primary ray was cast
    steps,      \* steps taken since the primary ray was cast
    lastLight,  \* the iteration of the lights loop run last, or NoLight
    worker,     \* render: each thread's row and column, row -1 between rows
    rowOwner,   \* render: the thread that took each row, 0 for a row not taken
    framebuffer,\* render: the colour of each slot
    writes,     \* render: per slot, the writes of the parallel loop, in order
    pcMain,     \* render and main: where the initial thread is
    stream,     \* ofs: "closed", "open" or "failed"
    file,       \* what ./out.ppm holds
    cursor,     \* the index i of the loop of lines 154-164
    exitStatus  \* <<>> while the program runs, then <<status>>

probeVars == <<query, answer, lastBoard>>

castVars == <<stack, returned, calls, steps, lastLight>>

renderVars ==
    <<worker, rowOwner, framebuffer, writes, pcMain, stream, file, cursor,
      exitStatus>>

vars == <<spheres, lights, probeVars, castVars, renderVars>>

NoAnswer == [found |-> FALSE, none |-> TRUE]

NoBoard == <<>>

NoReturn == [none |-> TRUE]

NoLight == [none |-> TRUE]

\* No ray is being cast.
CastIdle ==
    /\ stack = <<>> /\ returned = NoReturn /\ calls = 0 /\ steps = 0
    /\ lastLight = NoLight

\* render is not running.
RenderIdle ==
    /\ worker = <<>> /\ rowOwner = <<>> /\ framebuffer = <<>> /\ writes = <<>>
    /\ pcMain = "none" /\ stream = "closed" /\ file = <<>> /\ cursor = 0
    /\ exitStatus = <<>>

\* sceneIntersect is not being probed.
ProbeIdle == query = <<>> /\ answer = NoAnswer /\ lastBoard = NoBoard

\* ------------------------------------------- sceneIntersect, call by call

ProbeInit ==
    /\ \E l \in ProbeLines, ns \in 0..MaxSpheres, h \in ProbeHeights, d \in Dirs :
          /\ spheres = Scene(l[1], l[2], ns)
          /\ query = [orig |-> Vec3f(l[1], h, l[2]), dir |-> d]
    /\ lights = <<>>
    /\ answer = NoAnswer
    /\ lastBoard = NoBoard
    /\ CastIdle
    /\ RenderIdle

\* A caller (rayCaster, lines 98-101) calls sceneIntersect with fresh
\* point, N and material.
SceneIntersectCall ==
    /\ answer = NoAnswer
    /\ answer' = sceneIntersect(query.orig, query.dir, spheres,
                                Vec3f(0, 0, 0), Vec3f(0, 0, 0), DefaultMaterial)
    /\ UNCHANGED <<spheres, lights, query, lastBoard, castVars, renderVars>>

\* The next call, with any scene and ray.
NextProbe ==
    /\ answer # NoAnswer
    /\ \E l \in ProbeLines, ns \in 0..MaxSpheres, h \in ProbeHeights, d \in Dirs :
          /\ spheres' = Scene(l[1], l[2], ns)
          /\ query' = [orig |-> Vec3f(l[1], h, l[2]), dir |-> d]
    /\ answer' = NoAnswer
    /\ lastBoard' = IF answer.checkerboard_dist < FloatMax
                    THEN <<answer.hit, answer.material.diffuse_color>>
                    ELSE lastBoard
    /\ UNCHANGED <<lights, castVars, renderVars>>

ProbeNext == SceneIntersectCall \/ NextProbe

SpecProbe == ProbeInit /\ [][ProbeNext]_vars

\* -------------------------------------------- claims about sceneIntersect

Dark == Vec3f(100, 100, 100)

Bright == Vec3f(300, 300, 300)

\* The checkerboard won the call answered last.
BoardWon == answer # NoAnswer /\ answer.checkerboard_dist < FloatMax

\* The parity of floor(0.5 x + 1000) + floor(0.5 z) at the point p.
FloorParity(p) ==
    (((p[1] + 2000 * Scale) \div (2 * Scale)) + (p[3] \div (2 * Scale))) % 2

\* The parity of trunc(0.5 x + 1000) + trunc(0.5 z) at a point p of the
\* checkerboard region, where 0.5 x + 1000 > 0 and z < 0: rounding toward
\* zero is the floor of the first and the ceiling of the second.
TruncParity(p) ==
    (((p[1] + 2000 * Scale) \div (2 * Scale)) - ((-p[3]) \div (2 * Scale))) % 2

\* C6, as claimed: the parity of floor(0.5 x + 1000) + floor(0.5 z) decides
\* the shade: two checkerboard hits get the same diffuse colour if and only if
\* that parity is the same at both.
C6_FloorParityDecidesShade ==
    (BoardWon /\ lastBoard # NoBoard) =>
        ((FloorParity(answer.hit) = FloorParity(lastBoard[1]))
            <=> (answer.material.diffuse_color = lastBoard[2]))

\* C6, amended: the parity of trunc(0.5 x + 1000) + trunc(0.5 z), the
\* conversions rounding toward zero, decides the shade of a checkerboard hit:
\* (0.3, 0.3, 0.3) when it is odd and (0.1, 0.1, 0.1) when it is even.
C6_TruncParityDecidesShade ==
    BoardWon =>
        answer.material.diffuse_color =
            (IF TruncParity(answer.hit) = 1 THEN Bright ELSE Dark)

\* A checkerboard hit at a point where 0.5 z is not whole, so that floor and
\* truncation differ, and one where it is whole.
C6_Witness ==
    /\ BoardWon
    /\ answer.hit[3] % (2 * Scale) # 0
    /\ lastBoard # NoBoard
    /\ lastBoard[1][3] % (2 * Scale) = 0

\* The spheres of the scene the ray of query meets, with their distances.
SphereHits ==
    { i \in 1..Len(spheres) : rayIntersect(spheres[i], query.orig, query.dir).ok }

SphereDist(i) == rayIntersect(spheres[i], query.orig, query.dir).t0

\* The distance along the ray of query to the plane y = -5 (dir.y # 0).
BoardDistance == -FDiv(query.orig[2] + 5 * Scale, query.dir[2])

BoardPoint == VAdd(query.orig, VScale(query.dir, BoardDistance))

\* The ray of query meets the checkerboard: not near-parallel, ahead of the
\* origin and inside the region |x| < 10, -30 < z < -10.
BoardQualifies ==
    /\ Abs(query.dir[2]) > 1
    /\ BoardDistance > 0
    /\ Abs(BoardPoint[1]) < 10 * Scale
    /\ -30 * Scale < BoardPoint[3]
    /\ BoardPoint[3] < -10 * Scale

\* The smallest distance among the sphere hits and the checkerboard hit.
NearestDist ==
    LET ds == { SphereDist(i) : i \in SphereHits }
              \cup (IF BoardQualifies THEN {BoardDistance} ELSE {})
    IN  IF ds = {} THEN FloatMax ELSE CHOOSE d \in ds : \A e \in ds : d <= e

\* The sphere that owns the nearest hit: the first of the list at that
\* distance; 0 when the checkerboard alone is at that distance, or nothing is.
NearestSphere ==
    LET at == { i \in SphereHits : SphereDist(i) = NearestDist }
    IN  IF at = {} THEN 0 ELSE CHOOSE i \in at : \A j \in at : i <= j

\* The hit record of the nearest surface, for a caller that passed a
\* default material.
NearestRecord ==
    IF NearestSphere # 0
    THEN LET p == VAdd(query.orig, VScale(query.dir, NearestDist))
         IN  [hit |-> p,
              N |-> Normalize(VSub(p, spheres[NearestSphere].center)),
              material |-> spheres[NearestSphere].material]
    ELSE [hit |-> BoardPoint,
          N |-> Up,
          material |-> [DefaultMaterial EXCEPT
                           !.diffuse_color =
                               IF TruncParity(BoardPoint) = 1 THEN Bright ELSE Dark]]

C8_ButBoardMaterial ==
    answer # NoAnswer =>
        /\ answer.found <=> NearestDist < Cutoff
        /\ answer.found =>
              /\ answer.hit = NearestRecord.hit
              /\ answer.N = NearestRecord.N
              /\ NearestSphere # 0 => answer.material = NearestRecord.material
              /\ NearestSphere = 0 =>
                    answer.material.diffuse_color = NearestRecord.material.diffuse_color

CastLine == <<0, -15 * Scale>>

\* The directions of a primary ray: along the line, where every hit is at
\* normal incidence.
CastDirs == { Up, Down }

\* The spheres a cast scene is built from, in the order
\* of the scene's list: one around the camera, one beyond the cutoff, one
\* that encloses the first and crosses the plane y = -5, one below the plane,
\* one far below, one above.  No two surfaces are closer than 0.4, so no
\* comparison of distances is decided by the rounding of a float.
CastPool ==
    << Sphere(Vec3f(CastLine[1], 0, CastLine[2]), 3 * Scale, glass),
       Sphere(Vec3f(CastLine[1], 1200 * Scale, CastLine[2]), 3 * Scale, rubber),
       Sphere(Vec3f(CastLine[1], -1 * Scale, CastLine[2]), 4500, rubber2),
       Sphere(Vec3f(CastLine[1], -8 * Scale, CastLine[2]), 2 * Scale, mirror),
       Sphere(Vec3f(CastLine[1], -40 * Scale, CastLine[2]), 2 * Scale, rubber),
       Sphere(Vec3f(CastLine[1], 12 * Scale, CastLine[2]), 2 * Scale, glass) >>

CastScene(ns) == SubSeq(CastPool, 1, ns)

CastLights(nl) == SubSeq(LightPool(CastLine[1], CastLine[2]), 1, nl)

Zero == Vec3f(0, 0, 0)

\* An activation of rayCaster at its entry: point and N default-constructed,
\* material Material() (lines 96-99).
Activation(orig, dir, depth) ==
    [orig |-> orig, dir |-> dir, depth |-> depth, pc |-> "enter",
     found |-> FALSE, point |-> Zero, N |-> Zero, material |-> DefaultMaterial,
     refractOrig |-> Zero, refractDir |-> Zero,
     reflectColor |-> Zero, refractColor |-> Zero,
     casts |-> 0, probes |-> 0, refractSelf |-> 0]

Top == stack[Len(stack)]

\* The test of line 101 without its depth cap.
TerminalNoCap(depth, found) == ~found

\* The test of line 101 with the cap two levels later.
TerminalLateCap(depth, found) == depth > MAXDEPTH + 2 \/ ~found

\* The test of line 101, given what sceneIntersect reports (it is not
\* called when depth > MAXDEPTH).
Terminal(depth, found) == depth > MAXDEPTH \/ ~found

\* A recursive call made with the caller's depth.
ChildDepthSame(depth) == depth

\* The depth handed to a recursive call (lines 110, 111).
ChildDepth(depth) == depth + 1

\* dir * N < 0 ? point - N * 1e-3 : point + N * 1e-3 (lines 108, 109, 119)
Offset(dir, point, N) ==
    IF Dot(dir, N) < 0 THEN VSub(point, VScale(N, 1)) ELSE VAdd(point, VScale(N, 1))

\* The shadow ray started at the hit point itself.
shadowOrigAtPoint(light_dir, point, N) == point

\* The origin of the shadow ray toward a light (line 119).
shadowOrig(light_dir, point, N) == Offset(light_dir, point, N)

\* The test of line 122: the light is hidden.
Shadowed(found, shadow_dist, light_distance) ==
    found /\ shadow_dist < light_distance

\* The activation on top returns color, having made probes shadow probes,
\* to its caller, which goes on: with
\* reflectColor set it casts the refracted ray (lines 110, 111), with
\* refractColor set it reaches the lights loop (lines 111-113); the primary
\* ray's colour goes to render.
Return(color, probes) ==
    LET f    == Top
        rest == SubSeq(stack, 1, Len(stack) - 1)
    IN  /\ returned' = [orig |-> f.orig, dir |-> f.dir, depth |-> f.depth,
                        found |-> f.found, color |-> color,
                        casts |-> f.casts, probes |-> probes,
                        refractSelf |-> f.refractSelf]
        /\ IF rest = <<>> THEN stack' = rest /\ calls' = calls
           ELSE LET c == rest[Len(rest)]
                IN  IF c.pc = "reflect"
                    THEN /\ stack' = Append(
                                [rest EXCEPT ![Len(rest)] =
                                    [c EXCEPT !.reflectColor = color,
                                              !.pc = "refract",
                                              !.casts = c.casts + 1]],
                                Activation(c.refractOrig, c.refractDir,
                                           ChildDepth(c.depth)))
                         /\ calls' = calls + 1
                    ELSE /\ stack' = [rest EXCEPT ![Len(rest)] =
                                         [c EXCEPT !.refractColor = color,
                                                   !.pc = "lights"]]
                         /\ calls' = calls

\* What sceneIntersect reports to the activation f (line 101).
Hit(f) == sceneIntersect(f.orig, f.dir, spheres, f.point, f.N, f.material)

CastInit ==
    /\ \E ns \in 0..MaxSpheres, nl \in 0..MaxLights, d \in CastDirs :
          /\ spheres = CastScene(ns)
          /\ lights = CastLights(nl)
          /\ stack = << Activation(Vec3f(CastLine[1], 0, CastLine[2]), d, 0) >>
    /\ calls = 1
    /\ steps = 0
    /\ returned = NoReturn
    /\ lastLight = NoLight
    /\ ProbeIdle
    /\ RenderIdle

\* Lines 101-104: too deep, or nothing hit: the background colour.
RayCasterBackground ==
    /\ stack # <<>>
    /\ Top.pc = "enter"
    /\ Terminal(Top.depth, Hit(Top).found)
    /\ Return(BACKGROUNDCOLOR, 0)
    /\ steps' = steps + 1
    /\ UNCHANGED <<spheres, lights, probeVars, lastLight, renderVars>>

\* Lines 101, 106-110: a hit; the two secondary rays are set up and the
\* reflected one is cast.
RayCasterHit ==
    /\ stack # <<>>
    /\ Top.pc = "enter"
    /\ \E f \in {Top} : \E si \in {Hit(f)} :
           /\ ~Terminal(f.depth, si.found)
           /\ \E reflectDir \in {Normalize(reflect(f.dir, si.N))},
                 rf \in {refract(f.dir, si.N, si.material.refractive_index)} :
              \E refractDir \in {Normalize(rf.dir)} :
                 stack' = Append(
                     [stack EXCEPT ![Len(stack)] =
                         [f EXCEPT !.pc = "reflect", !.found = si.found,
                                   !.point = si.hit, !.N = si.N,
                                   !.material = si.material,
                                   !.refractOrig = Offset(refractDir, si.hit, si.N),
                                   !.refractDir = refractDir,
                                   !.refractSelf = rf.self,
                                   !.casts = 1]],
                     Activation(Offset(reflectDir, si.hit, si.N), reflectDir,
                                ChildDepth(f.depth)))
    /\ calls' = calls + 1
    /\ steps' = steps + 1
    /\ UNCHANGED <<spheres, lights, probeVars, returned, lastLight, renderVars>>

\* Lines 122-126: what the light lt adds, hidden telling whether line 122
\* skipped it.
lightAdd(f, lt, light_dir, hidden) ==
    [light    |-> lt,
     hidden   |-> hidden,
     diffuse  |-> IF hidden THEN 0
                  ELSE FMul(lt.intensity, Max(0, Dot(light_dir, f.N))),
     specular |-> IF hidden THEN 0
                  ELSE FMul(FPow(Max(0, Dot(VNeg(reflect(VNeg(light_dir), f.N)),
                                             f.dir)),
                                 f.material.specular_exponent),
                            lt.intensity)]

\* Line 122, given what sceneIntersect reported for the shadow ray.
lightHidden(sh, shadow_orig, light_distance) ==
    Shadowed(sh.found, Norm(VSub(sh.hit, shadow_orig)), light_distance)

\* Lines 120-126, given the origin of the shadow ray.
lightProbe(f, lt, light_dir, light_distance, shadow_orig) ==
    lightAdd(f, lt, light_dir,
             lightHidden(sceneIntersect(shadow_orig, light_dir, spheres,
                                        Zero, Zero, DefaultMaterial),
                         shadow_orig, light_distance))

\* Lines 119-126, given the direction of the light and its distance.
lightShadow(f, lt, light_dir, light_distance) ==
    lightProbe(f, lt, light_dir, light_distance,
               shadowOrig(light_dir, f.point, f.N))

\* One iteration of the loop of lines 114-127 at the hit of f: what light
\* lt adds to the two intensities.
lightStep(f, lt) ==
    lightShadow(f, lt, Normalize(VSub(lt.position, f.point)),
                Norm(VSub(lt.position, f.point)))

RECURSIVE sumOf(_, _, _)
\* The sum of field k of the records log[i..].
sumOf(log, k, i) ==
    IF i > Len(log) THEN 0 ELSE log[i][k] + sumOf(log, k, i + 1)

\* Lines 113-128: the loop over the lights and the colour of the hit.
RayCasterShade ==
    /\ stack # <<>>
    /\ Top.pc = "lights"
    /\ \E f \in {Top} :
       \E log \in {[i \in 1..Len(lights) |-> lightStep(f, lights[i])]} :
       LET m == f.material
           diffuse_light_intensity  == sumOf(log, "diffuse", 1)
           specular_light_intensity == sumOf(log, "specular", 1)
       IN  /\ lastLight' = [point |-> f.point, N |-> f.N, dir |-> f.dir,
                            material |-> m, log |-> log]
           /\ Return(VAdd(VAdd(VScale(VScale(m.diffuse_color,
                                             diffuse_light_intensity),
                                      m.albedo[1]),
                               VScale(VScale(Vec3f(Scale, Scale, Scale),
                                             specular_light_intensity),
                                      m.albedo[2])),
                          VAdd(VScale(f.reflectColor, m.albedo[3]),
                               VScale(f.refractColor, m.albedo[4]))),
                     Len(log))
    /\ steps' = steps + 1
    /\ UNCHANGED <<spheres, lights, probeVars, renderVars>>

CastNext ==
    \/ RayCasterBackground
    \/ RayCasterHit
    \/ RayCasterShade

SpecCast == CastInit /\ [][CastNext]_vars

\* --------------------------------------------------- claims about rayCaster

\* What sceneIntersect reports for a ray to a caller with a fresh point, N
\* and material.
ReportsHit(orig, dir) ==
    sceneIntersect(orig, dir, spheres, Zero, Zero, DefaultMaterial).found

\* C1: a call of rayCaster with depth > 10, or for a ray for which
\* sceneIntersect reports no hit, returns exactly the background colour
\* (0.3, 0.2, 0.3), and it casts no reflected ray, no refracted ray and no
\* shadow probe: an activation deeper than 10 never gets past its entry.
C1_TerminalCallsReturnBackground ==
    /\ \A k \in DOMAIN stack :
          stack[k].depth > MAXDEPTH =>
              stack[k].pc = "enter" /\ stack[k].casts = 0
    /\ (stack # <<>> /\ ~ReportsHit(Top.orig, Top.dir)) =>
          Top.pc = "enter" /\ Top.casts = 0
    /\ (/\ returned # NoReturn
        /\ returned.depth > MAXDEPTH \/ ~ReportsHit(returned.orig, returned.dir))
          => /\ returned.color = Vec3f(300, 200, 300)
             /\ returned.casts = 0
             /\ returned.probes = 0

\* A call at depth 11 for a ray that meets a surface has returned the
\* background colour.
C1_Witness ==
    /\ returned # NoReturn
    /\ returned.depth = 11
    /\ ReportsHit(returned.orig, returned.dir)
    /\ returned.color = Vec3f(300, 200, 300)

\* The depths of the activations in progress count up from 0 by one, none
\* is above MAXDEPTH + 1 = 11, and refract has called itself at most once
\* in each of them.
DepthsInOrder ==
    \A k \in DOMAIN stack :
        /\ stack[k].depth = k - 1
        /\ stack[k].depth <= 11
        /\ stack[k].refractSelf <= 1

\* The largest number of steps the call tree of an activation entered at
\* depth d <= 11 takes: one at depth 11, and below it the step that casts
\* the reflected ray, the two subtrees and the step of the lights loop.
StepsBelow(d) == 3 * 2 ^ (11 - d) - 2

\* The steps an activation of the stack still owes, its callee's excluded:
\* all of its tree at entry, the refracted ray's tree and the lights loop
\* while the reflected ray is cast, the lights loop after that.
StepsOwed(a) ==
    IF a.pc = "enter" THEN StepsBelow(a.depth)
    ELSE IF a.pc = "reflect" THEN StepsBelow(a.depth + 1) + 1
    ELSE 1

RECURSIVE StepsLeft(_, _)
\* A bound on the steps the cast whose stack is st[k..] still takes.
StepsLeft(st, k) ==
    IF k > Len(st) THEN 0 ELSE StepsOwed(st[k]) + StepsLeft(st, k + 1)

\* The activation on top is where a step of rayCaster starts: at its entry
\* (the test of line 101 goes one way or the other) or at the lights loop;
\* it does not wait for a callee.
TopCanStep == Top.pc \in {"enter", "lights"}

C9_AtMostTwoToTheCap == calls <= 2 ^ 10

\* C9, amended: no primary ray gives rise to more than 2^12 - 1 = 4095
\* rayCaster invocations, the size of a binary tree whose levels are the
\* depths 0 to 11.
C9_AtMostFullTree == calls <= 2 ^ 12 - 1

\* A primary ray has returned after more than 2^10 invocations.
C9_Witness == stack = <<>> /\ returned # NoReturn /\ calls > 2 ^ 10

\* The heights at which the surface of the sphere s crosses the cast line.
SurfaceHeights(s) == { s.center[2] - s.radius, s.center[2] + s.radius }

\* The height y lies strictly between the heights a and b.
StrictlyBetween(y, a, b) == (a < y /\ y < b) \/ (b < y /\ y < a)

\* The straight path from the point p to the light lt passes through a
\* sphere of the scene.
SphereBetween(p, lt) ==
    \E i \in DOMAIN spheres : \E y \in SurfaceHeights(spheres[i]) :
        StrictlyBetween(y, p[2], lt.position[2])

\* The origin of the shadow ray from p toward lt: p moved 0.001 toward the
\* light.
TowardLight(p, lt) == p[2] + Sgn(lt.position[2] - p[2])

\* The straight path from p to lt passes through a sphere, or through the
\* checkerboard, less than 1000 away from the origin of the shadow ray.
SurfaceBetweenNear(p, lt) ==
    \/ \E i \in DOMAIN spheres : \E y \in SurfaceHeights(spheres[i]) :
          /\ StrictlyBetween(y, p[2], lt.position[2])
          /\ Abs(y - TowardLight(p, lt)) < 1000 * Scale
    \/ /\ StrictlyBetween(-5 * Scale, p[2], lt.position[2])
       /\ Abs(p[1]) < 10 * Scale /\ -30 * Scale < p[3] /\ p[3] < -10 * Scale
       /\ Abs(-5 * Scale - TowardLight(p, lt)) < 1000 * Scale

\* The sphere part of SurfaceBetweenNear.
SphereBetweenNear(p, lt) ==
    \E i \in DOMAIN spheres : \E y \in SurfaceHeights(spheres[i]) :
        /\ StrictlyBetween(y, p[2], lt.position[2])
        /\ Abs(y - TowardLight(p, lt)) < 1000 * Scale

\* The unit vector from p toward lt on the cast line.
DirToLight(p, lt) == Vec3f(0, Sgn(lt.position[2] - p[2]) * Scale, 0)

\* The full diffuse term of lt at the hit h: intensity * max(0, light_dir * N).
FullDiffuse(h, lt) ==
    FMul(lt.intensity, Max(0, Dot(DirToLight(h.point, lt), h.N)))

\* The full specular term of lt at the hit h.
FullSpecular(h, lt) ==
    FMul(FPow(Max(0, Dot(VNeg(reflect(VNeg(DirToLight(h.point, lt)), h.N)), h.dir)),
              h.material.specular_exponent),
         lt.intensity)

\* C7, as claimed: a light whose straight path from the hit point passes
\* through a sphere closer than the light adds nothing to the diffuse and
\* nothing to the specular intensity.
C7_SphereBetweenHidesLight ==
    lastLight # NoLight =>
        \A i \in DOMAIN lastLight.log :
            SphereBetween(lastLight.point, lastLight.log[i].light) =>
                lastLight.log[i].diffuse = 0 /\ lastLight.log[i].specular = 0

\* C7, amended: a light whose straight path from the hit point passes through
\* a sphere less than 1000 away from the origin of the shadow ray adds nothing
\* to the diffuse and nothing to the specular intensity; a light whose shadow
\* ray meets no surface closer than the light and less than 1000 away adds
\* its full diffuse and specular terms.
C7_NearSphereBetweenHidesLight ==
    lastLight # NoLight =>
        \A i \in DOMAIN lastLight.log :
            /\ SphereBetweenNear(lastLight.point, lastLight.log[i].light) =>
                  lastLight.log[i].diffuse = 0 /\ lastLight.log[i].specular = 0
            /\ ~SurfaceBetweenNear(lastLight.point, lastLight.log[i].light) =>
                  /\ lastLight.log[i].diffuse =
                         FullDiffuse(lastLight, lastLight.log[i].light)
                  /\ lastLight.log[i].specular =
                         FullSpecular(lastLight, lastLight.log[i].light)

\* The lights loop has run at a hit that faces a light hidden by a sphere
\* between the two.
C7_Witness ==
    /\ lastLight # NoLight
    /\ \E i \in DOMAIN lastLight.log :
          /\ SphereBetweenNear(lastLight.point, lastLight.log[i].light)
          /\ FullDiffuse(lastLight, lastLight.log[i].light) > 0
          /\ lastLight.log[i].hidden

\* ------------------------------------------------------- render and main

\* The width and the height of the image (1024 and 768 in render) and the
\* number of threads of the parallel loop.
Width == 2

Height == 3

NumThreads == 2

Threads == 1..NumThreads

Rows == 0..(Height - 1)

Slots == 0..(Width * Height - 1)

\* The scene of main (lines 175-186).
MainSpheres ==
    << Sphere(Vec3f(1000, -1500, -12000), 3 * Scale, glass),
       Sphere(Vec3f(-3500, 1500, -18000), 2 * Scale, rubber),
       Sphere(Vec3f(3500, -1500, -24000), 2 * Scale, rubber2),
       Sphere(Vec3f(7000, 5000, -18000), 4 * Scale, mirror) >>

MainLights ==
    << Light(Vec3f(-10000, 10000, 20000), 1400),
       Light(Vec3f(-30000, -30000, 20000), 1200),
       Light(Vec3f(-20000, 20000, 20000), 1500),
       Light(Vec3f(30000, 50000, -25000), 800),
       Light(Vec3f(30000, 20000, 30000), 3000) >>

\* The index of pixel (i, j) without the stride of a row.
SlotNoStride(i, j) == i + j

\* The index of pixel (i, j) in the framebuffer (line 146).
Slot(i, j) == i + j * Width

\* What rayCaster returns for the primary ray of pixel (i, j): the
\* background, or a colour with a component above 1, as a highlight gives.
RayColor(i, j) ==
    IF (i + j) % 2 = 0 THEN BACKGROUNDCOLOR ELSE Vec3f(1500, 600, 0)

\* A parallel loop whose end waits for nothing.
NoBarrier == TRUE

\* The end of the parallel loop (lines 138-148): every row is taken and no
\* thread is in a row; the threads wait for one another there.
ParallelForDone ==
    /\ \A j \in Rows : rowOwner[j] # 0
    /\ \A t \in Threads : worker[t].row < 0

\* Lines 157-159: a colour with a component above 1 is scaled down.
ToneMap(c) ==
    IF Max(c[1], Max(c[2], c[3])) > Scale
    THEN VScale(c, FDiv(Scale, Max(c[1], Max(c[2], c[3]))))
    ELSE c

\* (char)(255 * max(0, min(1, x))) (line 162)
ToByte(x) == (255 * Max(0, Min(Scale, x))) \div Scale

RenderInit ==
    /\ spheres = MainSpheres
    /\ lights = MainLights
    /\ worker = [t \in Threads |-> [row |-> -1, col |-> 0]]
    /\ rowOwner = [j \in Rows |-> 0]
    /\ framebuffer = [s \in Slots |-> Zero]
    /\ writes = [s \in Slots |-> <<>>]
    /\ pcMain = "loop"
    /\ stream = "closed"
    /\ file = <<>>
    /\ cursor = 0
    /\ exitStatus = <<>>
    /\ ProbeIdle
    /\ CastIdle

\* Line 139: a thread that is in no row takes a row no thread has taken,
\* whatever the schedule of the loop.
TakeRow(t) ==
    /\ pcMain = "loop"
    /\ worker[t].row < 0
    /\ \E j \in Rows :
          /\ rowOwner[j] = 0
          /\ rowOwner' = [rowOwner EXCEPT ![j] = t]
          /\ worker' = [worker EXCEPT ![t] = [row |-> j, col |-> 0]]
    /\ UNCHANGED <<spheres, lights, probeVars, castVars, framebuffer, writes,
                   pcMain, stream, file, cursor, exitStatus>>

\* Lines 141-147, one iteration: the thread computes the pixel at its
\* column of its row and stores it; after the last column it leaves the row.
ComputePixel(t) ==
    /\ pcMain = "loop"
    /\ worker[t].row >= 0
    /\ \E i \in {worker[t].col}, j \in {worker[t].row} :
          /\ framebuffer' = [framebuffer EXCEPT ![Slot(i, j)] = RayColor(i, j)]
          /\ writes' = [writes EXCEPT ![Slot(i, j)] =
                           Append(@, [thread |-> t, row |-> j, col |-> i])]
          /\ worker' = [worker EXCEPT ![t] =
                           IF i + 1 < Width THEN [row |-> j, col |-> i + 1]
                           ELSE [row |-> -1, col |-> 0]]
    /\ UNCHANGED <<spheres, lights, probeVars, castVars, rowOwner, pcMain,
                   stream, file, cursor, exitStatus>>

\* Lines 150-151: past the end of the parallel loop the initial thread
\* opens ./out.ppm; the open succeeds, emptying the file, or fails, and
\* nothing reads the state of the stream.
OpenFile ==
    /\ pcMain = "loop"
    /\ ParallelForDone
    /\ \E ok \in BOOLEAN :
          /\ stream' = IF ok THEN "open" ELSE "failed"
          /\ file' = IF ok THEN <<>> ELSE file
    /\ pcMain' = "header"
    /\ UNCHANGED <<spheres, lights, probeVars, castVars, worker, rowOwner,
                   framebuffer, writes, cursor, exitStatus>>

\* Lines 152-153: the header; a stream that failed writes nothing.
WriteHeader ==
    /\ pcMain = "header"
    /\ file' = IF stream = "open"
               THEN file \o <<"P6\n", Width, " ", Height, "\n255\n">>
               ELSE file
    /\ pcMain' = "pixels"
    /\ cursor' = 0
    /\ UNCHANGED <<spheres, lights, probeVars, castVars, worker, rowOwner,
                   framebuffer, writes, stream, exitStatus>>

\* Lines 154-164, one iteration: the colour of slot cursor is scaled down
\* in the framebuffer and its three bytes are written.
WritePixel ==
    /\ pcMain = "pixels"
    /\ cursor < Width * Height
    /\ \E c \in {ToneMap(framebuffer[cursor])} :
          /\ framebuffer' = [framebuffer EXCEPT ![cursor] = c]
          /\ file' = IF stream = "open"
                     THEN file \o <<ToByte(c[1]), ToByte(c[2]), ToByte(c[3])>>
                     ELSE file
    /\ cursor' = cursor + 1
    /\ UNCHANGED <<spheres, lights, probeVars, castVars, worker, rowOwner,
                   writes, pcMain, stream, exitStatus>>

\* Lines 165-166: ofs.close(); render returns nothing.
Close ==
    /\ pcMain = "pixels"
    /\ cursor = Width * Height
    /\ stream' = IF stream = "open" THEN "closed" ELSE "failed"
    /\ pcMain' = "returned"
    /\ UNCHANGED <<spheres, lights, probeVars, castVars, worker, rowOwner,
                   framebuffer, writes, file, cursor, exitStatus>>

\* Line 190: return 0.
MainReturn ==
    /\ pcMain = "returned"
    /\ exitStatus' = <<0>>
    /\ pcMain' = "exited"
    /\ UNCHANGED <<spheres, lights, probeVars, castVars, worker, rowOwner,
                   framebuffer, writes, stream, file, cursor>>

RenderNext ==
    \/ \E t \in Threads : TakeRow(t)
    \/ \E t \in Threads : ComputePixel(t)
    \/ OpenFile
    \/ WriteHeader
    \/ WritePixel
    \/ Close
    \/ MainReturn

SpecRender == RenderInit /\ [][RenderNext]_vars

\* ------------------------------------------------------ claims about render

\* C2: no byte of the output, header or pixel data, is written before every
\* framebuffer slot has been assigned: while the file holds a byte, every
\* slot has been written, every row is taken and no thread is in a row.
C2_NoByteBeforeLastPixel ==
    file # <<>> =>
        /\ \A s \in Slots : writes[s] # <<>>
        /\ \A j \in Rows : rowOwner[j] # 0
        /\ \A t \in Threads : worker[t].row < 0

\* The header and the bytes of the first pixel are in the file.
C2_Witness == pcMain = "pixels" /\ cursor > 0 /\ Len(file) > 5

\* C3: in the parallel loop no two threads write the same slot: a slot is
\* written at most once, exactly once by the end of the loop, by the thread
\* that took row j, at the slot i + j * width of the pixel; the scene is
\* never written.
C3_SlotsWrittenOnceByRowOwner ==
    /\ \A s \in Slots :
          /\ Len(writes[s]) <= 1
          /\ \A k \in DOMAIN writes[s] :
                /\ writes[s][k].col + writes[s][k].row * Width = s
                /\ rowOwner[writes[s][k].row] = writes[s][k].thread
          /\ pcMain # "loop" => Len(writes[s]) = 1
    /\ spheres = MainSpheres
    /\ lights = MainLights

\* The loop has ended with rows computed by two different threads.
C3_Witness ==
    /\ pcMain # "loop"
    /\ \E a \in Slots, b \in Slots :
          /\ writes[a] # <<>> /\ writes[b] # <<>>
          /\ writes[a][1].thread # writes[b][1].thread

\* C4: when ./out.ppm cannot be opened the program does not exit with
\* success: the exit status is 0 only when the open succeeded.
C4_OpenFailureSurfaced ==
    (pcMain = "exited" /\ exitStatus = <<0>>) => stream # "failed"

=============================================================================
